---- MODULE Spec2Model ----
(***************************************************************************)
(* Model of src/regression.py: the OLS fit helper, the prediction helper,  *)
(* the growth-rate reporter and the slope comparison t-test.               *)
(*                                                                         *)
(* Floating point values are modelled in exact arithmetic as pairs         *)
(* <<n, d>>: the rational n/d when d > 0 (kept in lowest terms), and the   *)
(* IEEE specials when d = 0: NaN = <<0,0>>, +Inf = <<1,0>>, -Inf = <<-1,0>>.*)
(* A missing cell of a DataFrame is NaN, as in pandas.                     *)
(* Square roots are never evaluated: a standard error is carried as its    *)
(* square, and the test statistic as the exact data that determine it.     *)
(***************************************************************************)
EXTENDS Integers, Sequences, FiniteSets, TLC

\* ------------------------------------------------------------------------
\* Floats: exact rationals plus the IEEE specials
\* ------------------------------------------------------------------------

NaN == <<0, 0>>
PosInf == <<1, 0>>
NegInf == <<-1, 0>>

AbsInt(n) == IF n < 0 THEN -n ELSE n

SignInt(n) == IF n < 0 THEN -1 ELSE IF n = 0 THEN 0 ELSE 1

RECURSIVE GCD(_, _)
GCD(a, b) == IF b = 0 THEN a ELSE GCD(b, a % b)

\* the float n/d, d # 0, in lowest terms with a positive denominator
Rat(n, d) ==
    LET g == GCD(AbsInt(n), AbsInt(d))
        s == IF d < 0 THEN -1 ELSE 1
    IN  <<(s * n) \div g, (s * d) \div g>>

\* a sequence given as a function on 1..n, as the tuple of its values
Tup(f) == f \o <<>>

\* Op applied to the VALUE of v: v is evaluated once, before Op uses it
Bind(v, Op(_)) == CHOOSE r \in {Op(w) : w \in {v}} : TRUE

F(k) == <<k, 1>>
Zero == F(0)
One == F(1)

IsFinite(a) == a[2] # 0

FAdd(a, b) ==
    IF IsFinite(a) /\ IsFinite(b)
    THEN LET g == GCD(a[2], b[2])
         IN  Rat(a[1] * (b[2] \div g) + b[1] * (a[2] \div g), a[2] * (b[2] \div g))
    ELSE IF a = NaN \/ b = NaN THEN NaN
    ELSE IF IsFinite(a) THEN b
    ELSE IF IsFinite(b) \/ a = b THEN a
    ELSE NaN

FNeg(a) == <<-a[1], a[2]>>

FSub(a, b) == FAdd(a, FNeg(b))

FMul(a, b) ==
    IF IsFinite(a) /\ IsFinite(b)
    THEN LET g1 == GCD(AbsInt(a[1]), b[2])
             g2 == GCD(AbsInt(b[1]), a[2])
         IN  <<(a[1] \div g1) * (b[1] \div g2), (a[2] \div g2) * (b[2] \div g1)>>
    ELSE IF a = NaN \/ b = NaN \/ a = Zero \/ b = Zero THEN NaN
    ELSE <<SignInt(a[1]) * SignInt(b[1]), 0>>

\* IEEE division: x/0 is +-Inf, 0/0 and Inf/Inf are NaN
FDiv(a, b) ==
    IF IsFinite(a) /\ IsFinite(b)
    THEN IF b[1] = 0
         THEN <<SignInt(a[1]), 0>>
         ELSE FMul(a, Rat(b[2], b[1]))
    ELSE IF a = NaN \/ b = NaN THEN NaN
    ELSE IF IsFinite(a) THEN Zero
    ELSE IF IsFinite(b) THEN <<a[1] * (IF b[1] < 0 THEN -1 ELSE 1), 0>>
    ELSE NaN

FSign(a) == SignInt(a[1])

\* a < b for finite floats
FLess(a, b) ==
    LET g == GCD(a[2], b[2])
    IN  a[1] * (b[2] \div g) < b[1] * (a[2] \div g)

RECURSIVE FSum(_)
FSum(s) == IF s = <<>> THEN Zero ELSE FAdd(Head(s), FSum(Tail(s)))

\* np.log10 on the values the target can take here: powers of ten, zero,
\* negative numbers and NaN
Exponents == 0 .. 3

RECURSIVE Pow10(_)
Pow10(k) == IF k = 0 THEN 1 ELSE 10 * Pow10(k - 1)

log10(v) ==
    IF v = NaN THEN NaN
    ELSE IF v = PosInf THEN PosInf
    ELSE IF v = NegInf THEN NaN
    ELSE IF v[1] < 0 THEN NaN
    ELSE IF v[1] = 0 THEN NegInf
    ELSE F(CHOOSE k \in Exponents : v = F(Pow10(k)))

\* ------------------------------------------------------------------------
\* pandas: DataFrame, Series and the operations the code uses
\* ------------------------------------------------------------------------
\* A DataFrame is [columns, rows]; a row is [idx, cells]: its index label
\* and a record of its cells by column name. A Series is a sequence of
\* [idx, val]. Index labels are unique within a frame.

Labels(rows) == {rows[k].idx : k \in 1 .. Len(rows)}

RECURSIVE SortedSeq(_)
SortedSeq(S) ==
    IF S = {} THEN <<>>
    ELSE LET m == CHOOSE a \in S : \A b \in S : a <= b
         IN  <<m>> \o SortedSeq(S \ {m})

\* frame.dropna(subset=..., inplace=True): the frame it is called on is
\* itself filtered.
dropna_inplace(frame, subset) ==
    [obj |-> "self",
     frame |-> [frame EXCEPT !.rows =
                  SelectSeq(@, LAMBDA r : \A c \in subset : r.cells[c] # NaN)]]

\* frame.dropna(subset=...), inplace left False: the rows holding a missing
\* value in a column of the subset are left out of a NEW frame; the frame it
\* is called on is not the object returned and keeps its rows.
dropna(frame, subset) ==
    [obj |-> "new",
     frame |-> [frame EXCEPT !.rows =
                  SelectSeq(@, LAMBDA r : \A c \in subset : r.cells[c] # NaN)]]

\* frame[col]: the column as a Series
Column(frame, col) ==
    Tup([k \in 1 .. Len(frame.rows) |->
        [idx |-> frame.rows[k].idx, val |-> frame.rows[k].cells[col]]])

\* series.to_numpy()
to_numpy(series) == Tup([k \in 1 .. Len(series) |-> series[k].val])

\* frame[target] = values: the column is overwritten in the frame object
SetColumn(frame, col, values) ==
    [frame EXCEPT !.rows =
        Tup([k \in 1 .. Len(@) |-> [@[k] EXCEPT !.cells[col] = values[k]]])]

\* frame[features].to_numpy(): one row of feature values per frame row
FeatureMatrix(frame, features) ==
    Tup([k \in 1 .. Len(frame.rows) |->
        Tup([j \in 1 .. Len(features) |-> frame.rows[k].cells[features[j]]])])

\* sm.add_constant(X): a column of ones is prepended
add_constant(X) == Tup([k \in 1 .. Len(X) |-> <<One>> \o X[k]])

\* series.isin(other): elementwise membership in the other Series' values
isin(series, other) ==
    Tup([k \in 1 .. Len(series) |->
        [idx |-> series[k].idx,
         val |-> series[k].val \in {other[j].val : j \in 1 .. Len(other)}]])

SeriesIndex(series) == Tup([k \in 1 .. Len(series) |-> series[k].idx])

SeriesAt(series, label) ==
    \E k \in 1 .. Len(series) : series[k].idx = label /\ series[k].val

\* s1 & s2 deciding by the presence of a label in both indexes alone
And_by_label(s1, s2) ==
    LET index == IF SeriesIndex(s1) = SeriesIndex(s2)
                 THEN SeriesIndex(s1)
                 ELSE SortedSeq(Labels(s1) \cup Labels(s2))
    IN  Tup([k \in 1 .. Len(index) |->
            [idx |-> index[k],
             val |-> index[k] \in Labels(s1) /\ index[k] \in Labels(s2)]])

\* s1 & s2 on boolean Series: the operands are aligned on their index
\* labels (the union of the labels, sorted, when the two indexes differ); a
\* label that one operand lacks gives False.
And(s1, s2) ==
    LET index == IF SeriesIndex(s1) = SeriesIndex(s2)
                 THEN SeriesIndex(s1)
                 ELSE SortedSeq(Labels(s1) \cup Labels(s2))
    IN  Tup([k \in 1 .. Len(index) |->
            [idx |-> index[k],
             val |-> SeriesAt(s1, index[k]) /\ SeriesAt(s2, index[k])]])

\* any(series): some value is True
any(series) == \E k \in 1 .. Len(series) : series[k].val

\* frame.loc[mask] with a boolean Series: the mask is aligned to the frame's
\* index by label and the rows whose label is True are kept, in the frame's
\* order. (Every label of the frame is in the mask's index here, so no
\* IndexingError is raised.)
loc(frame, mask) ==
    [frame EXCEPT !.rows = SelectSeq(@, LAMBDA r : SeriesAt(mask, r.idx))]

\* ------------------------------------------------------------------------
\* statsmodels and numpy: the OLS fit of a simple regression, its
\* prediction, the residual correlation
\* ------------------------------------------------------------------------

AllFinite(s) == \A k \in 1 .. Len(s) : IsFinite(s[k])

\* The result every float of which is NaN: what the solver returns when a
\* NaN or an infinity is among its inputs (a non-finite input makes every
\* estimate NaN or infinite; which of the two is not told apart).
NaNFit(n) ==
    [params |-> <<NaN, NaN>>, bse2 |-> <<NaN, NaN>>, nobs |-> n,
     df_resid |-> n - 2, rsquared_adj |-> NaN]

\* sm.OLS(y, X).fit() for X = [1, x]: the least-squares intercept and slope,
\* the SQUARES of their standard errors (bse2), the residual degrees of
\* freedom and the adjusted R^2, by the closed form of the normal equations.
\* The inputs of the model always hold two rows with different x, so X has
\* full rank.
OLS(y, X) ==
    LET n == Len(y)
        x == Tup([k \in 1 .. n |-> X[k][2]])
    IN  IF ~(AllFinite(y) /\ AllFinite(x)) \/ n < 2 THEN NaNFit(n)
        ELSE
        Bind([sx |-> FSum(x),
              sy |-> FSum(y),
              sxx |-> FSum(Tup([k \in 1 .. n |-> FMul(x[k], x[k])])),
              sxy |-> FSum(Tup([k \in 1 .. n |-> FMul(x[k], y[k])])),
              syy |-> FSum(Tup([k \in 1 .. n |-> FMul(y[k], y[k])]))],
        LAMBDA s :
        Bind([sumx2 |-> s.sxx,
              sx |-> s.sx,
              sy |-> s.sy,
              cxx |-> FSub(s.sxx, FDiv(FMul(s.sx, s.sx), F(n))),
              cxy |-> FSub(s.sxy, FDiv(FMul(s.sx, s.sy), F(n))),
              cyy |-> FSub(s.syy, FDiv(FMul(s.sy, s.sy), F(n)))],
        LAMBDA c :
        IF c.cxx = Zero THEN NaNFit(n)
        ELSE
        Bind(FDiv(c.cxy, c.cxx), LAMBDA b :
        Bind(FSub(c.cyy, FMul(b, c.cxy)), LAMBDA ssr :
        Bind(FDiv(ssr, F(n - 2)), LAMBDA scale :
            [params |-> <<FDiv(FSub(c.sy, FMul(b, c.sx)), F(n)), b>>,
             bse2 |-> <<FDiv(FMul(scale, c.sumx2), FMul(F(n), c.cxx)),
                        FDiv(scale, c.cxx)>>,
             nobs |-> n,
             df_resid |-> n - 2,
             rsquared_adj |->
                 FSub(One, FMul(FDiv(F(n - 1), F(n - 2)),
                                FDiv(ssr, c.cyy)))])))))

\* model.predict(exog=X): intercept + slope * x for each row of X
predict(model, X) ==
    Tup([k \in 1 .. Len(X) |->
        FAdd(FMul(model.params[1], X[k][1]), FMul(model.params[2], X[k][2]))])

\* y - yhat, elementwise
Residuals(y, yhat) == Tup([k \in 1 .. Len(y) |-> FSub(y[k], yhat[k])])

\* A correlation coefficient r is carried exactly as [sgn, sq]: its sign and
\* its square; NaN is [sgn |-> 0, sq |-> NaN].
RhoZero == [sgn |-> 0, sq |-> Zero]
RhoNaN == [sgn |-> 0, sq |-> NaN]

\* np.corrcoef(u, v)[0, 1]: cov(u, v) / sqrt(var(u) * var(v)); NaN when a
\* variance is zero (0/0) or when there is a single observation.
corrcoef(u, v) ==
    LET m == Len(u)
    IN  IF ~(AllFinite(u) /\ AllFinite(v)) \/ m < 2 THEN RhoNaN
        ELSE
        Bind([su |-> FSum(u),
              sv |-> FSum(v),
              suv |-> FSum(Tup([k \in 1 .. m |-> FMul(u[k], v[k])])),
              suu |-> FSum(Tup([k \in 1 .. m |-> FMul(u[k], u[k])])),
              svv |-> FSum(Tup([k \in 1 .. m |-> FMul(v[k], v[k])]))],
        LAMBDA s :
        Bind([cuv |-> FSub(s.suv, FDiv(FMul(s.su, s.sv), F(m))),
              cuu |-> FSub(s.suu, FDiv(FMul(s.su, s.su), F(m))),
              cvv |-> FSub(s.svv, FDiv(FMul(s.sv, s.sv), F(m)))],
        LAMBDA c :
        IF c.cuu = Zero \/ c.cvv = Zero THEN RhoNaN
        ELSE [sgn |-> FSign(c.cuv),
              sq |-> FMul(FDiv(c.cuv, c.cuu), FDiv(c.cuv, c.cvv))]))

\* ------------------------------------------------------------------------
\* regression_slope_t_test, as a function of its arguments
\* ------------------------------------------------------------------------

SeqToSet(s) == {s[j] : j \in 1 .. Len(s)}

\* common_systems: data1['System'].isin(data2['System'])
\*                 & data2['System'].isin(data1['System'])
CommonSystems(frame1, frame2) ==
    And(isin(Column(frame1, "System"), Column(frame2, "System")),
        isin(Column(frame2, "System"), Column(frame1, "System")))

\* The sign of the term under the root,
\*     SE1^2 + SE2^2 - 2*SE1*SE2*rho
\*       = (SE1 - SE2)^2 + 2*SE1*SE2*(1 - rho),
\* for SE1, SE2 >= 0 and -1 <= rho <= 1: both summands are >= 0, so the term
\* is 0 exactly when SE1 = SE2 and (SE1 = 0 or rho = 1), and positive
\* otherwise. (In floating point a term that is 0 here can also come out as
\* a rounding residue of either sign.)
TermSign(se1sq, se2sq, rho) ==
    IF se1sq = se2sq /\ (se1sq = Zero \/ (rho.sgn = 1 /\ rho.sq = One))
    THEN 0
    ELSE 1

NaNStat == [num |-> NaN, se1sq |-> Zero, se2sq |-> Zero, rho |-> RhoZero]

\* t_stat = (b1 - b2) / np.sqrt(SE1**2 + SE2**2 - 2*SE1*SE2*rho).
\* A finite statistic is carried as the exact data that determine it: the
\* numerator and the three quantities under the root. The division by a
\* zero root gives +-Inf or NaN, in num: no exception is raised.
TStat(b1, b2, se1sq, se2sq, rho) ==
    LET num == FSub(b1, b2)
    IN  IF ~(IsFinite(num) /\ IsFinite(se1sq) /\ IsFinite(se2sq)
             /\ IsFinite(rho.sq))
        THEN NaNStat
        ELSE IF TermSign(se1sq, se2sq, rho) = 0
        THEN [NaNStat EXCEPT !.num = FDiv(num, Zero)]
        ELSE [num |-> num, se1sq |-> se1sq, se2sq |-> se2sq, rho |-> rho]

\* The degrees of freedom of a pooled two-sample test: n1 + n2 - 2
pooled_df(X1, X2) == (Len(X1) + Len(X2)) - 2

\* df1 + df2 with df_i = X_i.shape[0] - 2

DegreesOfFreedom(X1, X2) == (Len(X1) - 2) + (Len(X2) - 2)

\* abs(t_stat)
AbsStat(t) == [t EXCEPT !.num = <<AbsInt(@[1]), @[2]>>]

\* 2 * (1 - stats.t.cdf(abs(t_stat), df)): the Student t distribution
\* function is an external collaborator, strictly increasing in its first
\* argument, so the p-value is carried as the pair that determines it.
PValue(t, df) == [abs_t |-> AbsStat(t), df |-> df]

\* print(f"...{value:.2f}"): one printed line, the value under its label
Line(text, value) == [text |-> text, value |-> value]

\* np.log10 of the targets when logy, the targets themselves otherwise
LogTargets(v, logy) ==
    IF logy THEN Tup([k \in 1 .. Len(v) |-> log10(v[k])]) ELSE v

\* Lines 81-104: the filtered datasets, their design matrices and targets,
\* and the rows and arrays of the common subset
SlopeTestArrays(data1, data2, features, target, logy) ==
    Bind([subset |-> SeqToSet(features) \cup {target}], LAMBDA s :
    Bind([dropped1 |-> dropna(data1, s.subset),
          dropped2 |-> dropna(data2, s.subset)], LAMBDA d :
    Bind(CommonSystems(d.dropped1.frame, d.dropped2.frame),
         LAMBDA common_systems :
    Bind([sel1 |-> loc(d.dropped1.frame, common_systems),
          sel2 |-> loc(d.dropped2.frame, common_systems)], LAMBDA c :
    Bind(dropna(c.sel1, s.subset).frame, LAMBDA data12 :
        [dropped1 |-> d.dropped1,
         dropped2 |-> d.dropped2,
         X1 |-> add_constant(FeatureMatrix(d.dropped1.frame, features)),
         y1 |-> LogTargets(to_numpy(Column(d.dropped1.frame, target)), logy),
         X2 |-> add_constant(FeatureMatrix(d.dropped2.frame, features)),
         y2 |-> LogTargets(to_numpy(Column(d.dropped2.frame, target)), logy),
         has_common |-> any(common_systems),
         data12 |-> data12.rows,
         rows1c |-> c.sel1.rows,
         rows2c |-> c.sel2.rows,
         X12 |-> add_constant(FeatureMatrix(data12, features)),
         y1_common |-> LogTargets(to_numpy(Column(c.sel1, target)), logy),
         y2_common |-> LogTargets(to_numpy(Column(c.sel2, target)), logy)])))))

RunSlopeTTest(data1, data2, features, target, logy, adj_corr) ==
    Bind(SlopeTestArrays(data1, data2, features, target, logy), LAMBDA a :
    Bind([model1 |-> OLS(a.y1, a.X1), model2 |-> OLS(a.y2, a.X2)], LAMBDA m :
    Bind([b1 |-> m.model1.params[2], SE1sq |-> m.model1.bse2[2],
          b2 |-> m.model2.params[2], SE2sq |-> m.model2.bse2[2],
          residuals_model1 |->
              IF a.has_common
              THEN Residuals(a.y1_common, predict(m.model1, a.X12))
              ELSE <<>>,
          residuals_model2 |->
              IF a.has_common
              THEN Residuals(a.y2_common, predict(m.model2, a.X12))
              ELSE <<>>], LAMBDA e :
    Bind(IF adj_corr /\ a.has_common
         THEN corrcoef(e.residuals_model1, e.residuals_model2)
         ELSE RhoZero, LAMBDA rho :
    Bind(TStat(e.b1, e.b2, e.SE1sq, e.SE2sq, rho), LAMBDA t_stat :
    Bind(DegreesOfFreedom(a.X1, a.X2), LAMBDA df :
    Bind(PValue(t_stat, df), LAMBDA p_value :
        [status |-> "returned",
         error |-> "none",
         locals |->
            [y1 |-> a.y1, y2 |-> a.y2, has_common |-> a.has_common,
             data12 |-> IF a.has_common THEN a.data12 ELSE <<>>,
             rows1c |-> IF a.has_common THEN a.rows1c ELSE <<>>,
             rows2c |-> IF a.has_common THEN a.rows2c ELSE <<>>,
             X12 |-> IF a.has_common THEN a.X12 ELSE <<>>,
             residuals_model1 |-> e.residuals_model1,
             residuals_model2 |-> e.residuals_model2,
             b1 |-> e.b1, SE1sq |-> e.SE1sq, b2 |-> e.b2, SE2sq |-> e.SE2sq,
             rho |-> rho, t_stat |-> t_stat, df |-> df, p_value |-> p_value],
         printed |->
            <<Line("Slope 1", [b |-> e.b1, SEsq |-> e.SE1sq]),
              Line("Slope 2", [b |-> e.b2, SEsq |-> e.SE2sq]),
              Line("Correlation of residuals", rho),
              Line("Test statistic", t_stat),
              Line("p-value", p_value)>>,
         data1 |-> IF a.dropped1.obj = "self" THEN a.dropped1.frame ELSE data1,
         data2 |-> IF a.dropped2.obj = "self" THEN a.dropped2.frame ELSE data2]
    )))))))

\* ------------------------------------------------------------------------
\* fit_ols_regression, get_predictions and print_growth_rates, as functions
\* of their arguments
\* ------------------------------------------------------------------------

\* smf.ols(formula, data): patsy leaves out the rows in which a variable of
\* the formula is NaN (its default NA action); an infinity is not missing.
PatsyRows(frame, features, target) ==
    [frame EXCEPT !.rows =
        SelectSeq(@, LAMBDA r :
            \A c \in SeqToSet(features) \cup {target} : r.cells[c] # NaN)]

RunFit(data, features, target, logy) ==
    Bind(dropna(data, SeqToSet(features) \cup {target}), LAMBDA dropped :
    Bind(IF logy
         THEN SetColumn(dropped.frame, target,
                LogTargets(to_numpy(Column(dropped.frame, target)), logy))
         ELSE dropped.frame, LAMBDA local :
    Bind(PatsyRows(local, features, target), LAMBDA design :
    Bind([y |-> to_numpy(Column(design, target)),
          X |-> add_constant(FeatureMatrix(design, features))], LAMBDA d :
    Bind(OLS(d.y, d.X), LAMBDA fit :
        [status |-> "returned",
         error |-> "none",
         locals |-> [y |-> d.y, target |-> to_numpy(Column(local, target))],
         value |->
            [backing |-> "pandas",
             names |-> <<"Intercept">> \o features,
             params |-> fit.params, bse2 |-> fit.bse2, nobs |-> fit.nobs,
             df_resid |-> fit.df_resid, rsquared_adj |-> fit.rsquared_adj],
         data |-> IF dropped.obj = "self" THEN local ELSE data])))))

\* The same difference taken over every parameter name, the first included
all_param_names(model, data) == SeqToSet(model.names) \ data.columns

\* set(model_features) - set(data.columns), model_features being the
\* parameter names but the first

MissingFeatures(model, data) == SeqToSet(Tail(model.names)) \ data.columns

\* The error of line 57: a ValueError whose message lists the missing
\* features. It is the code's MissingFeatureError.
MissingFeatureError(missing) ==
    [type |-> "ValueError",
     message |-> "The following required features are missing from the prediction data",
     features |-> missing]

\* model.predict(data).to_numpy() for a formula model: the prediction of each
\* row, NaN for a row in which a feature is missing
FormulaPredict(model, data) ==
    LET features == Tail(model.names)
        X == add_constant(FeatureMatrix(data, features))
    IN  Tup([k \in 1 .. Len(X) |->
            IF \E j \in 1 .. Len(X[k]) : X[k][j] = NaN
            THEN NaN
            ELSE predict(model, <<X[k]>>)[1]])

RunGetPredictions(model, data, features) ==
    LET missing_features == MissingFeatures(model, data)
    IN  IF missing_features # {}
        THEN [status |-> "raised",
              error |-> MissingFeatureError(missing_features),
              value |-> "none"]
        ELSE [status |-> "returned",
              error |-> "none",
              value |-> FormulaPredict(model, data)]

\* data[cols]: the frame restricted to some of its columns
Project(frame, cols) ==
    [columns |-> cols,
     rows |-> Tup([k \in 1 .. Len(frame.rows) |->
                 [idx |-> frame.rows[k].idx,
                  cells |-> [c \in cols |-> frame.rows[k].cells[c]]]])]

\* model.conf_int(): per parameter, its lower and its upper 95% bound,
\* params[i] -+ t(0.975, df_resid) * bse[i]. A bound is carried as the data
\* that determine it.
Bound(model, i, side) ==
    [param |-> i, side |-> side, center |-> model.params[i],
     sesq |-> model.bse2[i], df |-> model.df_resid]

conf_int(model) ==
    Tup([i \in 1 .. Len(model.params) |->
        <<Bound(model, i, "lower"), Bound(model, i, "upper")>>])

\* model.conf_int()[i][j], i and j counted from 0 as in the code. For a
\* result fitted on numpy arrays conf_int() is an ndarray, and [i][j] is row
\* i (the parameter), column j (the bound). For a result of the formula API
\* (fit_ols_regression) it is a DataFrame whose columns are labelled 0 and
\* 1 and whose rows are labelled by parameter name: [i] selects COLUMN i and
\* [j], an integer on a string index, is taken by position: parameter j.
ConfIntAt(model, i, j) ==
    IF model.backing = "ndarray"
    THEN conf_int(model)[i + 1][j + 1]
    ELSE conf_int(model)[j + 1][i + 1]

\* model.params[1]: the second parameter (by position on a string index)
ParamAt(model, i) == model.params[i + 1]

\* utils.ooms_to_factor_per_year and utils.ooms_to_doubling_time_months:
\* 10^v, and the months in which the quantity doubles at v orders of
\* magnitude per year. Carried as the application itself.
ooms_to_factor_per_year(v) == [fn |-> "ooms_to_factor_per_year", arg |-> v]

ooms_to_doubling_time_months(v) ==
    [fn |-> "ooms_to_doubling_time_months", arg |-> v]

Interval(value, first, second) ==
    [value |-> value, first |-> first, second |-> second]

RunPrintGrowthRates(model) ==
    [status |-> "returned",
     error |-> "none",
     value |-> "none",
     printed |->
        <<Line("Adj. R^2", model.rsquared_adj),
          Line("OOMs/year",
               Interval(ParamAt(model, 1),
                        ConfIntAt(model, 1, 0), ConfIntAt(model, 1, 1))),
          Line("x/year",
               Interval(ooms_to_factor_per_year(ParamAt(model, 1)),
                        ooms_to_factor_per_year(ConfIntAt(model, 1, 0)),
                        ooms_to_factor_per_year(ConfIntAt(model, 1, 1)))),
          Line("doubling time",
               Interval(ooms_to_doubling_time_months(ParamAt(model, 1)),
                        ooms_to_doubling_time_months(ConfIntAt(model, 1, 1)),
                        ooms_to_doubling_time_months(ConfIntAt(model, 1, 0))))>>]

\* ------------------------------------------------------------------------
\* The state: the caller's two datasets, the last call and what it printed
\* ------------------------------------------------------------------------

VARIABLES data1, data2, call, out

vars == <<data1, data2, call, out>>

\* The arguments every call of the model passes
Features == <<"x">>
Target == "y"

Columns == {"System", "x", "y"}

MkFrame(labels, systems, xs, ys) ==
    [columns |-> Columns,
     rows |-> Tup([k \in 1 .. Len(labels) |->
                 [idx |-> labels[k],
                  cells |-> [System |-> systems[k], x |-> xs[k], y |-> ys[k]]]])]

\* Bounds of the datasets
MaxOffset == 1

Names == <<"A", "B", "C", "D", "E", "F", "G", "H">>

TargetValues == {F(1), F(10)}

RangeLabels(n, off) == Tup([k \in 1 .. n |-> off + k - 1])

\* the default index 0..n-1, a range starting later (a slice of a longer
\* table), and the default index of a table sorted the other way round
LabelLayouts(n) ==
    {RangeLabels(n, off) : off \in 0 .. MaxOffset} \cup {Tup([k \in 1 .. n |-> n - k])}

\* the same entities as the first dataset, entities shifted by one row, and
\* entities the first dataset does not hold
SystemLayouts(n) == {Tup([k \in 1 .. n |-> Names[k + s]]) : s \in {0, 1, n}}

XLayouts(n) == {Tup([k \in 1 .. n |-> F(k - 1)]), Tup([k \in 1 .. n |-> F((k + 1) % n)])}

Canonical(n, ys) ==
    MkFrame(RangeLabels(n, 0), Tup([k \in 1 .. n |-> Names[k]]),
            Tup([k \in 1 .. n |-> F(k - 1)]), ys)

\* Two complete datasets of three rows; the second varies in its index
\* labels, its entities and its feature values.
InitPair ==
    /\ \E ys \in [1 .. 3 -> TargetValues] : data1 = Canonical(3, ys)
    /\ \E labels \in LabelLayouts(3), systems \in SystemLayouts(3),
          xs \in XLayouts(3), ys \in [1 .. 3 -> TargetValues] :
          data2 = MkFrame(labels, systems, xs, ys)

\* One row of the first dataset holds a missing feature, a missing target,
\* or a target that has no logarithm.
SpecialRows ==
    {[x |-> NaN, y |-> F(1)], [x |-> F(0), y |-> NaN],
     [x |-> F(0), y |-> F(0)], [x |-> F(0), y |-> F(-1)]}

InitSingle ==
    /\ \E n \in {3, 4} : \E ys \in [1 .. n -> TargetValues], at \in 1 .. n,
          sp \in SpecialRows :
          LET base == Canonical(n, ys)
          IN  data1 = [base EXCEPT
                         !.rows[at].cells.y = sp.y,
                         !.rows[at].cells.x = IF sp.x = NaN THEN NaN ELSE @]
    /\ \E ys \in [1 .. 3 -> TargetValues] : data2 = Canonical(3, ys)

Init ==
    /\ InitPair \/ InitSingle
    /\ call = [op |-> "none"]
    /\ out = <<>>

\* The caller makes one call at a time: fit_ols_regression, perhaps
\* followed by a prediction or a report with the model it returned, or
\* regression_slope_t_test; it then discards the result and may call again.
fit_ols_regression ==
    /\ call.op = "none"
    /\ \E which \in {1, 2}, logy \in BOOLEAN :
        \E r \in {RunFit(IF which = 1 THEN data1 ELSE data2, Features, Target, logy)} :
            /\ call' = [op |-> "fit", args |-> [which |-> which, logy |-> logy],
                        status |-> r.status, error |-> r.error,
                        value |-> r.value, locals |-> r.locals]
            /\ data1' = IF which = 1 THEN r.data ELSE data1
            /\ data2' = IF which = 2 THEN r.data ELSE data2
            /\ out' = <<>>

\* The models the caller can predict with: the one fit_ols_regression just
\* returned, and one of the formula y ~ x + z, fitted on a table that holds
\* a column z (no dataset of the model holds z, so only its parameter names
\* are ever used).
PredictionModels(model) ==
    {model, [model EXCEPT !.names = @ \o <<"z">>, !.params = @ \o <<One>>]}

get_predictions ==
    /\ call.op = "fit"
    /\ call.status = "returned"
    /\ \E model \in PredictionModels(call.value),
          cols \in {Columns, Columns \ {"x"}} :
          \E r \in {RunGetPredictions(model, Project(data1, cols), Features)} :
              call' = [op |-> "predict",
                       args |-> [names |-> model.names, columns |-> cols],
                       status |-> r.status, error |-> r.error, value |-> r.value]
    /\ out' = <<>>
    /\ UNCHANGED <<data1, data2>>

\* The models the caller can report on: the one fit_ols_regression just
\* returned, and the same fit made on numpy arrays (sm.OLS(y, X).fit(), as
\* regression_slope_t_test fits its own).
print_growth_rates ==
    /\ call.op = "fit"
    /\ call.status = "returned"
    /\ \E backing \in {"pandas", "ndarray"} :
          \E model \in {[call.value EXCEPT !.backing = backing]} :
          \E r \in {RunPrintGrowthRates(model)} :
              /\ call' = [op |-> "print", args |-> [model |-> model],
                          status |-> r.status, error |-> r.error]
              /\ out' = r.printed
    /\ UNCHANGED <<data1, data2>>

regression_slope_t_test ==
    /\ call.op = "none"
    /\ \E logy \in BOOLEAN, adj_corr \in BOOLEAN :
        \E r \in {RunSlopeTTest(data1, data2, Features, Target, logy, adj_corr)} :
            /\ call' = [op |-> "ttest",
                        args |-> [logy |-> logy, adj_corr |-> adj_corr],
                        status |-> r.status, error |-> r.error,
                        locals |-> r.locals]
            /\ out' = r.printed
            /\ data1' = r.data1
            /\ data2' = r.data2

discard ==
    /\ call.op # "none"
    /\ call' = [op |-> "none"]
    /\ out' = <<>>
    /\ UNCHANGED <<data1, data2>>

Next ==
    \/ fit_ols_regression
    \/ get_predictions
    \/ print_growth_rates
    \/ regression_slope_t_test
    \/ discard

Spec == Init /\ [][Next]_vars

\* ------------------------------------------------------------------------
\* Properties
\* ------------------------------------------------------------------------

\* The dataset a call of fit_ols_regression was given
FitData == IF call.args.which = 1 THEN data1 ELSE data2

\* The rows of a dataset that hold no missing feature or target
CompleteRows(frame) ==
    SelectSeq(frame.rows, LAMBDA r : r.cells.x # NaN /\ r.cells.y # NaN)

Systems(rows) == {rows[k].cells.System : k \in 1 .. Len(rows)}

NonPositive(v) == v = Zero \/ FLess(v, Zero)

HasNonPositiveTarget(frame) ==
    \E k \in 1 .. Len(CompleteRows(frame)) :
        NonPositive(CompleteRows(frame)[k].cells.y)

FiniteStat(t) == IsFinite(t.num)

\* Two finite statistics t = num / sqrt(se1sq + se2sq - 2*SE1*SE2*rho) have
\* the same magnitude: both are 0, or their numerators have the same
\* magnitude and their roots are equal. With the same two standard errors
\* (in either order) the roots are equal exactly when SE1*SE2*rho agree.
SameMagnitude(t, u) ==
    \/ t.num = Zero /\ u.num = Zero
    \/ /\ AbsInt(t.num[1]) = AbsInt(u.num[1])
       /\ t.num[2] = u.num[2]
       /\ {t.se1sq, t.se2sq} = {u.se1sq, u.se2sq}
       /\ (t.rho = u.rho \/ t.se1sq = Zero \/ t.se2sq = Zero)

\* C1: in regression_slope_t_test, whenever the term
\* SE1^2 + SE2^2 - 2*SE1*SE2*rho is <= 0, the call has failed (with a
\* DegenerateVarianceError) and has printed no test statistic or p-value.
C1_DegenerateVarianceRaises ==
    (/\ call.op = "ttest"
     /\ IsFinite(call.locals.SE1sq) /\ IsFinite(call.locals.SE2sq)
     /\ IsFinite(call.locals.rho.sq)
     /\ TermSign(call.locals.SE1sq, call.locals.SE2sq, call.locals.rho) = 0)
    => /\ call.status = "raised"
       /\ \A k \in 1 .. Len(out) :
              out[k].text \notin {"Test statistic", "p-value"}

\* C2: whenever the prediction dataset lacks a feature used at fit time,
\* get_predictions has failed with the error that names exactly the
\* features used at fit time that the dataset lacks, and has returned no
\* prediction.
C2_MissingFeaturesNamed ==
    call.op = "predict" =>
        LET used == {f \in SeqToSet(call.args.names) : f # "Intercept"}
            lacking == used \ call.args.columns
        IN  lacking # {} =>
                /\ call.status = "raised"
                /\ call.error = MissingFeatureError(lacking)
                /\ call.value = "none"

\* C2: get_predictions has been called with a dataset that lacks two of the
\* model's features
C2_Witness ==
    /\ call.op = "predict"
    /\ call.status = "raised"
    /\ call.error.features = {"x", "z"}

\* C3: with logy set, whenever a target that remains after the
\* missing-value filter is <= 0, fit_ols_regression and
\* regression_slope_t_test have failed (with an InvalidTransformError).
C3_InvalidTransformRaises ==
    /\ (call.op = "fit" /\ call.args.logy /\ HasNonPositiveTarget(FitData))
           => call.status = "raised"
    /\ (/\ call.op = "ttest" /\ call.args.logy
        /\ (HasNonPositiveTarget(data1) \/ HasNonPositiveTarget(data2)))
           => call.status = "raised"

\* C4: when the two datasets share no entity identifier,
\* regression_slope_t_test has used rho = 0, and the call with the other
\* value of adj_corr gives the same slopes, standard errors, statistic,
\* degrees of freedom and p-value.
C4_NoSharedEntity ==
    (call.op = "ttest" /\ Systems(data1.rows) \cap Systems(data2.rows) = {})
    => /\ call.locals.rho = RhoZero
       /\ LET other == RunSlopeTTest(data1, data2, Features, Target,
                           call.args.logy, ~call.args.adj_corr).locals
          IN  /\ other.rho = call.locals.rho
              /\ other.b1 = call.locals.b1 /\ other.b2 = call.locals.b2
              /\ other.SE1sq = call.locals.SE1sq
              /\ other.SE2sq = call.locals.SE2sq
              /\ other.t_stat = call.locals.t_stat
              /\ other.df = call.locals.df
              /\ other.p_value = call.locals.p_value

\* C4: the adjusted test has been run on two datasets that share no entity
\* but share index labels, and has given a finite statistic
C4_Witness ==
    /\ call.op = "ttest"
    /\ call.args.adj_corr
    /\ Systems(data1.rows) \cap Systems(data2.rows) = {}
    /\ Labels(data1.rows) \cap Labels(data2.rows) # {}
    /\ FiniteStat(call.locals.t_stat)
    /\ call.locals.t_stat.num # Zero

\* C5: when regression_slope_t_test(A, B) and regression_slope_t_test(B, A)
\* both give a finite statistic, the two statistics have the same magnitude
\* and opposite signs, and the p-values are the same.
C5_Symmetric ==
    call.op = "ttest" =>
        LET t == call.locals.t_stat
            swapped == RunSlopeTTest(data2, data1, Features, Target,
                           call.args.logy, call.args.adj_corr).locals
            u == swapped.t_stat
        IN  (FiniteStat(t) /\ FiniteStat(u)) =>
                /\ SameMagnitude(t, u)
                /\ SignInt(u.num[1]) = -SignInt(t.num[1])
                /\ swapped.df = call.locals.df

\* C6: no step changes the caller's datasets: after fit_ols_regression and
\* after regression_slope_t_test, with logy or without, each dataset holds
\* the rows and the values it held before.
C6_DatasetsUnchanged == [][data1' = data1 /\ data2' = data2]_vars

\* C6: fit_ols_regression has been called with logy on a dataset of which it
\* filtered a row out, and has fitted on the logarithms of the targets
C6_Witness ==
    /\ call.op = "fit"
    /\ call.args.logy
    /\ call.status = "returned"
    /\ Len(CompleteRows(FitData)) < Len(FitData.rows)
    /\ call.locals.target # to_numpy(Column(dropna(FitData, {"x", "y"}).frame, "y"))

\* C7: for a positive slope with the interval lo < slope < hi,
\* print_growth_rates prints the OOMs/year and the x/year intervals with
\* the value from lo first and the value from hi second, and the doubling
\* time interval with the value from hi first and the value from lo second.
C7_IntervalOrder ==
    (/\ call.op = "print"
     /\ FLess(Zero, call.args.model.params[2])
     /\ IsFinite(call.args.model.bse2[2])
     /\ FLess(Zero, call.args.model.bse2[2]))
    => LET lo == Bound(call.args.model, 2, "lower")
           hi == Bound(call.args.model, 2, "upper")
       IN  /\ out[2].text = "OOMs/year"
           /\ out[2].value.first = lo /\ out[2].value.second = hi
           /\ out[3].text = "x/year"
           /\ out[3].value.first = ooms_to_factor_per_year(lo)
           /\ out[3].value.second = ooms_to_factor_per_year(hi)
           /\ out[4].text = "doubling time"
           /\ out[4].value.first = ooms_to_doubling_time_months(hi)
           /\ out[4].value.second = ooms_to_doubling_time_months(lo)

\* C8: the Common Subset regression_slope_t_test uses is, in each dataset,
\* the rows left by the missing-value filter whose System occurs in the
\* other filtered dataset, whatever their index labels and positions.
C8_CommonSubsetByIdentifier ==
    call.op = "ttest" =>
        LET rows1 == CompleteRows(data1)
            rows2 == CompleteRows(data2)
        IN  /\ call.locals.data12 =
                 SelectSeq(rows1, LAMBDA r : r.cells.System \in Systems(rows2))
            /\ call.locals.rows1c = call.locals.data12
            /\ call.locals.rows2c =
                 SelectSeq(rows2, LAMBDA r : r.cells.System \in Systems(rows1))

C10_DegreesOfFreedom ==
    call.op = "ttest" =>
        LET n1 == Len(CompleteRows(data1))
            n2 == Len(CompleteRows(data2))
        IN  /\ call.locals.df = (n1 - 2) + (n2 - 2)
            /\ call.locals.p_value.df = (n1 - 2) + (n2 - 2)

\* C10: the test has been run on a first dataset of four rows one of which
\* the filter removed
C10_Witness ==
    /\ call.op = "ttest"
    /\ Len(data1.rows) = 4
    /\ Len(CompleteRows(data1)) = 3
    /\ call.locals.df = 2

====
